---- MODULE Spec2Model ----
(***************************************************************************)
(* liquid-rust: the `for` block (src/src/tags/for_block.rs) and the        *)
(* top-level parse entry point (src/src/lib.rs).                           *)
(*                                                                         *)
(* Three specifications share the variables below:                         *)
(*   Spec         For::render, run step by step over one Context           *)
(*   SpecParse    for_block, the block constructor of `for`                *)
(*   SpecRegistry parse, the registration of the built-in blocks           *)
(* Context, Value, Template, the lexer and the parser are modules of the   *)
(* crate whose files are not part of the sources at hand; they are         *)
(* modelled from the specification text.                                   *)
(***************************************************************************)
EXTENDS Integers, Sequences, FiniteSets, TLC

VARIABLES
    \* ---- Spec (render) ----
    node0,        \* the For node being rendered (self)
    ctx0,         \* history: the Context as the caller passed it in
    context,      \* the Context (context: &mut Context)
    stack,        \* the active render calls, innermost last
    ret,          \* the value the innermost finished call returned, or NoRet
    binds_top,    \* history: the elements the outermost loop bound, in order
    outs_top,     \* history: the body outputs the outermost loop accumulated
    body_starts,  \* history: how many body renders were started (any depth)
    last_done,    \* history: the array of the loop that finished last
    ctx_iter,     \* history: the Context at the end of the outermost loop's last iteration
    err_seen,     \* history: the first failure, with the bind count at that time
    \* ---- SpecParse (for_block) ----
    arguments,    \* arguments: &[Token]
    tokens,       \* tokens: Vec<Element>, the block's nested body
    block_result, \* what for_block returned, or NoRet
    \* ---- SpecParse, SpecRegistry ----
    options,      \* LiquidOptions: blocks and tags
    \* ---- SpecRegistry (parse) ----
    user_options, \* history: the registry as the caller supplied it
    lex_ok,       \* whether lexer::tokenize accepts the text
    elements,     \* what lexer::tokenize returned for the text
    pc,           \* position inside parse
    parse_result  \* what parse returned, or NoRet

vars == <<node0, ctx0, context, stack, ret, binds_top, outs_top, body_starts,
          last_done, ctx_iter, err_seen, arguments, tokens, block_result,
          options, user_options, lex_ok, elements, pc, parse_result>>

renderVars == <<node0, ctx0, context, stack, ret, binds_top, outs_top,
                body_starts, last_done, ctx_iter, err_seen>>
forBlockVars == <<arguments, tokens, block_result>>
registryVars == <<user_options, lex_ok, elements, pc, parse_result>>
\* what a render leaves alone
parseVars == <<forBlockVars, options, registryVars>>

-----------------------------------------------------------------------------
(* Bounds of the model *)

\* longest Array held in a Context
MaxLen == 4
\* longest argument list handed to for_block
MaxArgs == 4

-----------------------------------------------------------------------------
(* Option and Result *)

None == [some |-> FALSE]
Some(v) == [some |-> TRUE, val |-> v]
Ok(v) == [tag |-> "Ok", val |-> v]
Err(e) == [tag |-> "Err", err |-> e]
NoRet == [tag |-> "NoRet"]

-----------------------------------------------------------------------------
(* Value *)

Nil == [t |-> "Nil"]
Bool(b) == [t |-> "Bool", b |-> b]
Num(n) == [t |-> "Num", num |-> n]
Str(s) == [t |-> "Str", str |-> s]
Array(xs) == [t |-> "Array", arr |-> xs]

IsArray(v) == v.t = "Array"

\* The text an interpolation writes for a value: an integral Num drops its
\* fractional zero (22.0 -> "22"), a Str is written as it is.
RECURSIVE value_to_string(_)
value_to_string(v) ==
    CASE v.t = "Nil" -> ""
      [] v.t = "Bool" -> IF v.b THEN "true" ELSE "false"
      [] v.t = "Num" -> ToString(v.num)
      [] v.t = "Str" -> v.str
      [] v.t = "Array" ->
            IF v.arr = <<>> THEN ""
            ELSE value_to_string(Head(v.arr)) \o value_to_string(Array(Tail(v.arr)))

-----------------------------------------------------------------------------
(* Context: one flat map from names to values *)

get_val(ctx, name) == IF name \in DOMAIN ctx THEN Some(ctx[name]) ELSE None

set_val(ctx, name, v) ==
    [n \in DOMAIN ctx \cup {name} |-> IF n = name THEN v ELSE ctx[n]]

-----------------------------------------------------------------------------
(* Token, Element, the Renderable nodes *)

Identifier(x) == [tok |-> "Identifier", id |-> x]
StringLiteral(s) == [tok |-> "StringLiteral", lit |-> s]

Raw(s) == [el |-> "Raw", text |-> s]
Expression(ts) == [el |-> "Expression", tokens |-> ts]
Tag(n, args) == [el |-> "Tag", name |-> n, args |-> args]
Block(n, args, body) == [el |-> "Block", name |-> n, args |-> args, body |-> body]

TextNode(s) == [type |-> "text", text |-> s]
ExprNode(n) == [type |-> "expr", name |-> n]
\* a Renderable supplied by the caller, named by the constructor that built it
UserNode(c) == [type |-> "user", ctor |-> c]
\* the node of a comment block: renders to no output
CommentNode == [type |-> "comment"]
\* the node of a raw or an if block, kept as built; none of the inputs
\* below holds one and its render is not part of this model
BuiltinNode(c) == [type |-> "builtin", ctor |-> c]
\* Template::new
Template(nodes) == [type |-> "template", nodes |-> nodes]
\* struct For { var_name, array_id, inner }
For(v, a, inner) == [type |-> "for", var_name |-> v, array_id |-> a, inner |-> inner]

\* Error::Parser(format!("Expected ..., found {:?}", x)): what was expected
\* and the offending Option<&Token>
ParserError(expected, found) == [kind |-> "Parser", expected |-> expected, found |-> found]
\* Error::Render(format!("Tried to iterate over {:?}, ...", x)): the
\* offending Option<&Value>
RenderError(found) == [kind |-> "Render", found |-> found]
LexerError == [kind |-> "Lexer"]
\* the Error a Renderable of the caller returns
UserError == [kind |-> "User"]

-----------------------------------------------------------------------------
(* LiquidOptions *)

LiquidOptions(blocks, tags) == [blocks |-> blocks, tags |-> tags]

Insert(map, key, v) == [k \in DOMAIN map \cup {key} |-> IF k = key THEN v ELSE map[k]]

EmptyMap == [k \in {} |-> "none"]

\* lib.rs: the four inserts of parse
register_builtins(opts) ==
    LET b1 == Insert(opts.blocks, "raw", "raw_block")
        b2 == Insert(b1, "if", "if_block")
        b3 == Insert(b2, "for", "for_block")
        b4 == Insert(b3, "comment", "comment_block")
    IN  [opts EXCEPT !.blocks = b4]

DefaultOptions == LiquidOptions(EmptyMap, EmptyMap)

-----------------------------------------------------------------------------
(* for_block and the parser *)

\* args.next() on the i-th call
ArgsNext(args, i) == IF i <= Len(args) THEN Some(args[i]) ELSE None

IsIdentifier(x) == x.some /\ x.val.tok = "Identifier"

RECURSIVE parser_parse(_, _)
RECURSIVE for_block(_, _, _)

\* the parser's dispatch of one Element
parse_element(el, opts) ==
    CASE el.el = "Raw" -> Ok(TextNode(el.text))
      [] el.el = "Expression" ->
            \* a registered tag is used for {{name}} as well (lib.rs, the
            \* example of Tag: {{hello_world}})
            IF el.tokens[1].id \in DOMAIN opts.tags
            THEN Ok(UserNode(opts.tags[el.tokens[1].id]))
            ELSE Ok(ExprNode(el.tokens[1].id))
      [] el.el = "Tag" ->
            IF el.name \in DOMAIN opts.tags
            THEN Ok(UserNode(opts.tags[el.name]))
            ELSE Err(ParserError("a tag", Some(Identifier(el.name))))
      [] el.el = "Block" ->
            IF el.name \notin DOMAIN opts.blocks
            THEN Err(ParserError("a block", Some(Identifier(el.name))))
            ELSE IF opts.blocks[el.name] = "for_block"
            THEN for_block(el.args, el.body, opts)
            ELSE IF opts.blocks[el.name] = "comment_block"
            THEN Ok(CommentNode)
            ELSE IF opts.blocks[el.name] \in {"raw_block", "if_block"}
            THEN Ok(BuiltinNode(opts.blocks[el.name]))
            ELSE Ok(UserNode(opts.blocks[el.name]))

\* parser::parse: the nodes of the elements, or the first failure
parser_parse(els, opts) ==
    IF els = <<>> THEN Ok(<<>>)
    ELSE LET first == parse_element(Head(els), opts)
         IN  IF first.tag = "Err" THEN first
             ELSE LET rest == parser_parse(Tail(els), opts)
                  IN  IF rest.tag = "Err" THEN rest
                      ELSE Ok(<<first.val>> \o rest.val)

for_block(args, toks, opts) ==
    LET inner == parser_parse(toks, opts)
        a1 == ArgsNext(args, 1)
        a2 == ArgsNext(args, 2)
        a3 == ArgsNext(args, 3)
    IN  IF inner.tag = "Err" THEN inner
        ELSE IF ~IsIdentifier(a1)
        THEN Err(ParserError("an identifier", a1))
        ELSE IF ~(IsIdentifier(a2) /\ a2.val.id = "in")
        THEN Err(ParserError("'in'", a2))
        ELSE IF ~IsIdentifier(a3)
        THEN Err(ParserError("an identifier", a3))
        ELSE Ok(For(a1.val.id, a3.val.id, inner.val))

-----------------------------------------------------------------------------
(* For::render *)

\* Variant: an unset or Nil source is taken for an empty array.
get_array_lenient(ctx, array_id) ==
    LET x == get_val(ctx, array_id)
    IN  IF x.some /\ IsArray(x.val)
        THEN Ok(x.val.arr)
        ELSE IF ~x.some \/ x.val = Nil
        THEN Ok(<<>>)
        ELSE Err(RenderError(x))

get_array(ctx, array_id) ==
    LET x == get_val(ctx, array_id)
    IN  IF x.some /\ IsArray(x.val)
        THEN Ok(x.val.arr)
        ELSE Err(RenderError(x))

\* Variant: the loop reads the source array from the Context on every turn
\* instead of iterating over its clone.
loop_iter_live(frame, ctx) ==
    LET x == get_val(ctx, frame.self.array_id)
    IN  IF x.some /\ IsArray(x.val)
        THEN SubSeq(x.val.arr, frame.idx + 1, Len(x.val.arr))
        ELSE <<>>

\* `for i in arr`: the iterator owns the cloned Vec; what it still has to
\* yield depends on the clone alone, the Context is not consulted.
loop_iter(frame, ctx) == SubSeq(frame.arr, frame.idx + 1, Len(frame.arr))

\* Variant: the loop variable is bound only when the name is still free.
bind_if_absent(ctx, self, i) ==
    IF self.var_name \in DOMAIN ctx THEN ctx ELSE set_val(ctx, self.var_name, i)

\* context.set_val(&self.var_name, i)
bind_loop_var(ctx, self, i) == set_val(ctx, self.var_name, i)

\* Option::unwrap_or
unwrap_or(opt, default) == IF opt.some THEN opt.val ELSE default

\* Variant: a failing body counts as a body without output.
try_render_swallow(r) ==
    IF r.tag = "Err" THEN [stop |-> FALSE, out |-> None] ELSE [stop |-> FALSE, out |-> r.val]

\* try!(self.inner.render(context)): a failure leaves render at once,
\* a success yields the body's Option<String>
try_render(r) ==
    IF r.tag = "Err" THEN [stop |-> TRUE] ELSE [stop |-> FALSE, out |-> r.val]

\* Variant: the body's output is put in front of the accumulator.
accumulate_prepend(acc, out) == unwrap_or(out, "") \o acc

\* ret = ret + &(...).unwrap_or("".to_owned())
accumulate(acc, out) == acc \o unwrap_or(out, "")

\* Variant: an empty accumulator is reported as "no output".
for_result_none_if_empty(acc) == IF acc = "" THEN Ok(None) ELSE Ok(Some(acc))

\* Ok(Some(ret))
for_result(acc) == Ok(Some(acc))

ForFrame(self, arr) == [kind |-> "for", self |-> self, arr |-> arr, idx |-> 0, ret |-> ""]
TemplateFrame(nodes) == [kind |-> "template", nodes |-> nodes, pos |-> 1, buf |-> ""]

Top == stack[Len(stack)]
Pop == SubSeq(stack, 1, Len(stack) - 1)
ReplaceTop(f) == [stack EXCEPT ![Len(stack)] = f]

Done == stack = <<>> /\ ret # NoRet

\* The first failure of the run, with the number of bindings made before it.
NoteErr(e) == IF err_seen.some THEN err_seen ELSE Some([err |-> e, binds |-> body_starts])

\* a template is at a node that is itself a For
AtForNode ==
    /\ stack # <<>>
    /\ Top.kind = "template"
    /\ Top.pos <= Len(Top.nodes)
    /\ Top.nodes[Top.pos].type = "for"

\* render, entry: get_array, then the empty accumulator
ForStart ==
    /\ ret = NoRet
    /\ (stack = <<>> /\ node0.type = "for") \/ AtForNode
    /\ LET self == IF stack = <<>> THEN node0 ELSE Top.nodes[Top.pos]
           arr == get_array(context, self.array_id)
       IN  IF arr.tag = "Err"
           THEN /\ ret' = arr
                /\ err_seen' = NoteErr(arr.err)
                /\ UNCHANGED stack
           ELSE /\ stack' = Append(stack, ForFrame(self, arr.val))
                /\ UNCHANGED <<ret, err_seen>>
    /\ UNCHANGED <<node0, ctx0, context, binds_top, outs_top, body_starts,
                   last_done, ctx_iter>>
    /\ UNCHANGED parseVars

\* one turn of the loop: take the next element, bind the loop variable,
\* enter the body
ForNext ==
    /\ ret = NoRet
    /\ stack # <<>>
    /\ Top.kind = "for"
    /\ loop_iter(Top, context) # <<>>
    /\ LET i == Head(loop_iter(Top, context))
       IN  /\ context' = bind_loop_var(context, Top.self, i)
           /\ stack' = Append(ReplaceTop([Top EXCEPT !.idx = @ + 1]),
                              TemplateFrame(Top.self.inner))
           /\ binds_top' = IF Len(stack) = 1 THEN Append(binds_top, i) ELSE binds_top
    /\ body_starts' = body_starts + 1
    /\ UNCHANGED <<node0, ctx0, ret, outs_top, last_done, ctx_iter, err_seen>>
    /\ UNCHANGED parseVars

\* the body returned: try!, then the accumulator grows
ForAccumulate ==
    /\ ret # NoRet
    /\ stack # <<>>
    /\ Top.kind = "for"
    /\ LET r == try_render(ret)
       IN  IF r.stop
           THEN /\ stack' = Pop
                /\ UNCHANGED <<ret, outs_top, ctx_iter>>
           ELSE /\ stack' = ReplaceTop([Top EXCEPT !.ret = accumulate(@, r.out)])
                /\ ret' = NoRet
                /\ outs_top' = IF Len(stack) = 1
                               THEN Append(outs_top, unwrap_or(r.out, ""))
                               ELSE outs_top
                /\ ctx_iter' = IF Len(stack) = 1 THEN context ELSE ctx_iter
    /\ UNCHANGED <<node0, ctx0, context, binds_top, body_starts, last_done, err_seen>>
    /\ UNCHANGED parseVars

\* Variant: the loop variable is scoped, its binding removed when the loop ends.
ForFinish_scoped ==
    /\ ret = NoRet
    /\ stack # <<>>
    /\ Top.kind = "for"
    /\ loop_iter(Top, context) = <<>>
    /\ ret' = for_result(Top.ret)
    /\ stack' = Pop
    /\ last_done' = Insert(last_done, Len(stack), Top.arr)
    /\ context' = [n \in DOMAIN context \ {Top.self.var_name} |-> context[n]]
    /\ UNCHANGED <<node0, ctx0, binds_top, outs_top, body_starts,
                   ctx_iter, err_seen>>
    /\ UNCHANGED parseVars

\* the loop is over: Ok(Some(ret))
ForFinish ==
    /\ ret = NoRet
    /\ stack # <<>>
    /\ Top.kind = "for"
    /\ loop_iter(Top, context) = <<>>
    /\ ret' = for_result(Top.ret)
    /\ stack' = Pop
    /\ last_done' = Insert(last_done, Len(stack), Top.arr)
    /\ UNCHANGED <<node0, ctx0, context, binds_top, outs_top, body_starts,
                   ctx_iter, err_seen>>
    /\ UNCHANGED parseVars

-----------------------------------------------------------------------------
(* Template::render, the body of the loop *)

\* what a text, a comment or an interpolation node writes
leaf_output(node, ctx) ==
    IF node.type = "text" THEN Some(node.text)
    ELSE IF node.type = "comment" THEN None
    ELSE LET v == get_val(ctx, node.name)
         IN  IF v.some THEN Some(value_to_string(v.val)) ELSE None

\* Renderable::render of a node of the caller: what it returns and the
\* Context it leaves. HelloWorld is the example of lib.rs; the other two
\* use what the signature allows, a change of the Context and a failure.
user_render(node, ctx) ==
    CASE node.ctor = "user_set_tag" ->
            [res |-> Ok(None), ctx |-> set_val(ctx, "array", Nil)]
      [] node.ctor = "user_fail_tag" ->
            [res |-> Err(UserError), ctx |-> ctx]
      [] OTHER ->
            [res |-> Ok(Some("Hello World!")), ctx |-> ctx]

\* the call at hand is the render of a node of the caller
AtUserNode ==
    \/ stack = <<>> /\ node0.type = "user"
    \/ /\ stack # <<>>
       /\ Top.kind = "template"
       /\ Top.pos <= Len(Top.nodes)
       /\ Top.nodes[Top.pos].type = "user"

\* a node of the caller renders: it returns at once
UserRender ==
    /\ ret = NoRet
    /\ AtUserNode
    /\ LET self == IF stack = <<>> THEN node0 ELSE Top.nodes[Top.pos]
           r == user_render(self, context)
       IN  /\ ret' = r.res
           /\ context' = r.ctx
           /\ err_seen' = IF r.res.tag = "Err" THEN NoteErr(r.res.err) ELSE err_seen
    /\ UNCHANGED <<node0, ctx0, stack, binds_top, outs_top, body_starts,
                   last_done, ctx_iter>>
    /\ UNCHANGED parseVars

\* Template::render, entry: the template parse returned is rendered
TemplateStart ==
    /\ ret = NoRet
    /\ stack = <<>>
    /\ node0.type = "template"
    /\ stack' = <<TemplateFrame(node0.nodes)>>
    /\ UNCHANGED <<node0, ctx0, context, ret, binds_top, outs_top, body_starts,
                   last_done, ctx_iter, err_seen>>
    /\ UNCHANGED parseVars

TemplateStep ==
    /\ ret = NoRet
    /\ stack # <<>>
    /\ Top.kind = "template"
    /\ Top.pos <= Len(Top.nodes)
    /\ Top.nodes[Top.pos].type \in {"text", "expr", "comment"}
    /\ stack' = ReplaceTop([Top EXCEPT
                    !.buf = @ \o unwrap_or(leaf_output(Top.nodes[Top.pos], context), ""),
                    !.pos = @ + 1])
    /\ UNCHANGED <<node0, ctx0, context, ret, binds_top, outs_top, body_starts,
                   last_done, ctx_iter, err_seen>>
    /\ UNCHANGED parseVars

\* a nested node returned: its failure ends the template, its text is appended
TemplateReturn ==
    /\ ret # NoRet
    /\ stack # <<>>
    /\ Top.kind = "template"
    /\ IF ret.tag = "Err"
       THEN /\ stack' = Pop
            /\ UNCHANGED ret
       ELSE /\ stack' = ReplaceTop([Top EXCEPT
                            !.buf = @ \o unwrap_or(ret.val, ""),
                            !.pos = @ + 1])
            /\ ret' = NoRet
    /\ UNCHANGED <<node0, ctx0, context, binds_top, outs_top, body_starts,
                   last_done, ctx_iter, err_seen>>
    /\ UNCHANGED parseVars

TemplateFinish ==
    /\ ret = NoRet
    /\ stack # <<>>
    /\ Top.kind = "template"
    /\ Top.pos > Len(Top.nodes)
    /\ ret' = Ok(Some(Top.buf))
    /\ stack' = Pop
    /\ UNCHANGED <<node0, ctx0, context, binds_top, outs_top, body_starts,
                   last_done, ctx_iter, err_seen>>
    /\ UNCHANGED parseVars

-----------------------------------------------------------------------------
(* The inputs of Spec *)

Names == {"name", "array", "other"}

\* the elements arrays are made of: the array of test_for, repeated
PoolBase == <<Num(22), Num(23), Num(24), Str("wat")>>
Prefix(k) == [i \in 1..k |-> PoolBase[((i - 1) % Len(PoolBase)) + 1]]
Arrays == {Array(Prefix(k)) : k \in 0..MaxLen}

SourceChoices == {None, Some(Nil), Some(Bool(TRUE)), Some(Num(22)), Some(Str("wat"))}
                    \cup {Some(a) : a \in Arrays}
OtherChoices == {None, Some(Array(<<>>)), Some(Array(<<Str("a"), Str("b")>>))}
NameChoices == {None, Some(Str("old"))}

MkContext(ca, co, cn) ==
    LET choice == [n \in Names |-> IF n = "array" THEN ca ELSE IF n = "other" THEN co ELSE cn]
    IN  [n \in {m \in Names : choice[m].some} |-> choice[n].val]

Contexts == {MkContext(ca, co, cn) : ca \in SourceChoices, co \in OtherChoices,
                                     cn \in NameChoices}

Header(v, a) == <<Identifier(v), Identifier("in"), Identifier(a)>>
Interp(v) == Expression(<<Identifier(v)>>)

LeafBodies(v) == { <<>>, <<Interp(v)>>, <<Raw("test "), Interp(v), Raw(" ")>> }
NestedBodies(v) ==
    { <<Block("for", Header(iv, ia), ib), Interp(v)>> :
        iv \in Names, ia \in Names, ib \in {<<>>}  }
        \cup { <<Block("for", Header(iv, ia), <<Interp(iv)>>), Interp(v)>> :
                  iv \in Names, ia \in Names }

\* bodies with nodes of the caller and a comment
UserBodies(v) ==
    { <<Interp("hello_world")>>,
      <<Interp(v), Tag("reset", <<>>)>>,
      <<Interp(v), Tag("fail", <<>>)>>,
      <<Block("comment", <<>>, <<Raw("no")>>), Interp(v)>> }

BuiltinOptions == register_builtins(DefaultOptions)

\* the registry of the renders: the built-ins and three tags of the caller
RenderTags ==
    [n \in {"hello_world", "reset", "fail"} |->
        IF n = "hello_world" THEN "user_tag"
        ELSE IF n = "reset" THEN "user_set_tag" ELSE "user_fail_tag"]
RenderOptions == [BuiltinOptions EXCEPT !.tags = RenderTags]

\* the For nodes for_block builds from well-formed blocks
ForNodes ==
    UNION { { for_block(Header(v, a), b, RenderOptions).val :
                b \in LeafBodies(v) \cup NestedBodies(v) \cup UserBodies(v) } :
            <<v, a>> \in Names \X Names }

\* the templates parse returns for the examples of lib.rs and for test_for's
\* loop written as a block
Templates ==
    { Template(parser_parse(els, RenderOptions).val) :
        els \in { <<Raw("Liquid!")>>,
                  <<Interp("hello_world")>>,
                  <<Block("for", Header("name", "array"),
                          <<Raw("test "), Interp("name"), Raw(" ")>>)>> } }

Idle == /\ arguments = <<>> /\ tokens = <<>> /\ block_result = NoRet
        /\ options = DefaultOptions /\ user_options = DefaultOptions
        /\ lex_ok = TRUE /\ elements = <<>> /\ pc = "idle" /\ parse_result = NoRet

Init ==
    /\ node0 \in ForNodes \cup Templates
    /\ ctx0 \in Contexts
    /\ context = ctx0
    /\ stack = <<>>
    /\ ret = NoRet
    /\ binds_top = <<>>
    /\ outs_top = <<>>
    /\ body_starts = 0
    /\ last_done = [k \in {} |-> <<>>]
    /\ ctx_iter = ctx0
    /\ err_seen = None
    /\ Idle

Next ==
    \/ ForStart
    \/ ForNext
    \/ ForAccumulate
    \/ ForFinish
    \/ UserRender
    \/ TemplateStart
    \/ TemplateStep
    \/ TemplateReturn
    \/ TemplateFinish

Spec == Init /\ [][Next]_vars

-----------------------------------------------------------------------------
(* SpecParse: for_block on argument lists and bodies of every shape *)

HeaderTokens == {Identifier("x"), Identifier("in"), Identifier("foo"),
                 Identifier("bar"), StringLiteral("in")}

RECURSIVE SeqsUpTo(_, _)
SeqsUpTo(S, n) ==
    IF n = 0 THEN {<<>>}
    ELSE LET shorter == SeqsUpTo(S, n - 1)
         IN  shorter \cup {Append(q, x) : q \in shorter, x \in S}

Headers == SeqsUpTo(HeaderTokens, MaxArgs)

\* bodies the parser accepts and bodies it refuses
ParseBodies ==
    { <<>>,
      <<Raw("test "), Interp("x"), Raw(" ")>>,
      <<Tag("nosuch", <<>>)>>,
      <<Block("nosuch", <<>>, <<>>)>>,
      <<Block("for", Header("x", "bar"), <<Interp("x")>>)>>,
      <<Block("for", <<Identifier("x"), Identifier("foo"), Identifier("bar")>>, <<>>)>> }

\* the registry for_block is called with: the built-ins, with or without a
\* user tag
ParseOptions ==
    { BuiltinOptions,
      [BuiltinOptions EXCEPT !.tags = Insert(EmptyMap, "nosuch", "user_tag")] }

RenderIdle ==
    /\ node0 = For("x", "x", <<>>)
    /\ ctx0 = [n \in {} |-> Nil]
    /\ context = [n \in {} |-> Nil]
    /\ stack = <<>>
    /\ ret = NoRet
    /\ binds_top = <<>>
    /\ outs_top = <<>>
    /\ body_starts = 0
    /\ last_done = [k \in {} |-> <<>>]
    /\ ctx_iter = [n \in {} |-> Nil]
    /\ err_seen = None

InitParse ==
    /\ arguments \in Headers
    /\ tokens \in ParseBodies
    /\ options \in ParseOptions
    /\ block_result = NoRet
    /\ user_options = DefaultOptions
    /\ lex_ok = TRUE /\ elements = <<>> /\ pc = "idle" /\ parse_result = NoRet
    /\ RenderIdle

\* the parser hands the block to its constructor
ForBlock ==
    /\ block_result = NoRet
    /\ block_result' = for_block(arguments, tokens, options)
    /\ UNCHANGED <<arguments, tokens, options, renderVars, registryVars>>

NextParse == ForBlock

SpecParse == InitParse /\ [][NextParse]_vars

-----------------------------------------------------------------------------
(* SpecRegistry: parse over every caller-supplied registry *)

BuiltinNames == {"raw", "if", "for", "comment"}
BuiltinBlock(n) ==
    CASE n = "raw" -> "raw_block"
      [] n = "if" -> "if_block"
      [] n = "for" -> "for_block"
      [] n = "comment" -> "comment_block"

UserBlockNames == BuiltinNames \cup {"custom"}
UserTagNames == {"for", "if", "custom"}

UserOptions ==
    { LiquidOptions([n \in bs |-> "user_block"], [n \in ts |-> "user_tag"]) :
        bs \in SUBSET UserBlockNames, ts \in SUBSET UserTagNames }

TopElements ==
    { <<Raw("Liquid!")>>,
      <<Tag("for", <<>>)>>,
      <<Tag("custom", <<>>)>>,
      <<Interp("custom")>>,
      <<Interp("for")>>,
      <<Block("for", Header("x", "bar"), <<>>)>>,
      <<Block("custom", <<>>, <<>>)>> }

InitRegistry ==
    /\ user_options \in UserOptions
    /\ options = user_options
    /\ lex_ok \in BOOLEAN
    /\ elements \in TopElements
    /\ pc = "start"
    /\ parse_result = NoRet
    /\ arguments = <<>> /\ tokens = <<>> /\ block_result = NoRet
    /\ RenderIdle

\* let tokens = try!(lexer::tokenize(&text)): the text does not lex
parse_tokenize_fails ==
    /\ pc = "start"
    /\ ~lex_ok
    /\ parse_result' = Err(LexerError)
    /\ pc' = "done"
    /\ UNCHANGED <<options, user_options, lex_ok, elements, forBlockVars, renderVars>>

\* the text lexes; the four built-in blocks are inserted
parse_register ==
    /\ pc = "start"
    /\ lex_ok
    /\ options' = register_builtins(options)
    /\ pc' = "registered"
    /\ UNCHANGED <<parse_result, user_options, lex_ok, elements, forBlockVars, renderVars>>

\* parser::parse(&tokens, &options).map(Template::new)
parse_build ==
    /\ pc = "registered"
    /\ parse_result' = LET nodes == parser_parse(elements, options)
                       IN  IF nodes.tag = "Err" THEN nodes ELSE Ok(Template(nodes.val))
    /\ pc' = "done"
    /\ UNCHANGED <<options, user_options, lex_ok, elements, forBlockVars, renderVars>>

NextRegistry ==
    \/ parse_tokenize_fails
    \/ parse_register
    \/ parse_build

SpecRegistry == InitRegistry /\ [][NextRegistry]_vars

-----------------------------------------------------------------------------
(* Properties of For::render (Spec) *)

\* what the source identifier held when render was called
\* the call checked is For::render
ForCall == node0.type = "for"
SrcVal == get_val(ctx0, node0.array_id)
SrcIsArray == ForCall /\ SrcVal.some /\ IsArray(SrcVal.val)
Arr0 == SrcVal.val.arr
Last(q) == q[Len(q)]

RECURSIVE ConcatAll(_)
ConcatAll(q) == IF q = <<>> THEN "" ELSE Head(q) \o ConcatAll(Tail(q))

\* The text a body of text and {{var}} nodes writes with the loop variable
\* bound to e, computed from the body alone.
RECURSIVE BodyText(_, _)
BodyText(nodes, e) ==
    IF nodes = <<>> THEN ""
    ELSE (IF Head(nodes).type = "text" THEN Head(nodes).text ELSE value_to_string(e))
            \o BodyText(Tail(nodes), e)

RECURSIVE LoopText(_, _)
LoopText(nodes, arr) ==
    IF arr = <<>> THEN ""
    ELSE BodyText(nodes, Head(arr)) \o LoopText(nodes, Tail(arr))

IsLeafBody ==
    \A i \in DOMAIN node0.inner :
        \/ node0.inner[i].type = "text"
        \/ node0.inner[i].type = "expr" /\ node0.inner[i].name = node0.var_name

\* the scenario of test_for
IsTestFor ==
    /\ node0 = For("name", "array", <<TextNode("test "), ExprNode("name"), TextNode(" ")>>)
    /\ SrcVal = Some(Array(<<Num(22), Num(23), Num(24), Str("wat")>>))

\* the body is a nested loop over the same loop variable, followed by more
NestedSameVar ==
    /\ node0.inner # <<>>
    /\ node0.inner[1].type = "for"
    /\ node0.inner[1].var_name = node0.var_name

\* the stack position of the frame of a loop nested in the outermost body
InnerPos == Len(<<"for", "template", "for">>)

ConcatenatesBodyOutputs ==
    /\ ret = Ok(Some(ConcatAll(outs_top)))
    /\ binds_top = Arr0
    /\ Len(outs_top) = Len(Arr0)
    /\ IsLeafBody => ret = Ok(Some(LoopText(node0.inner, Arr0)))
    /\ IsTestFor => ret = Ok(Some("test 22 test 23 test 24 test wat "))

\* C1, as stated: whenever the source identifier is bound to an Array,
\* render succeeds with the concatenation, in the array's order, of the
\* body's output for each element.
C1_Original ==
    (Done /\ SrcIsArray) => ConcatenatesBodyOutputs

\* C1, amended: when the source identifier is bound to an Array and no body
\* render fails, render succeeds with Some(s), s the concatenation, in the
\* array's order, of the body's output for each element bound in turn;
\* test_for's scenario yields exactly "test 22 test 23 test 24 test wat ".
C1_ForConcatenatesBodyOutputs ==
    (Done /\ SrcIsArray /\ ~err_seen.some) => ConcatenatesBodyOutputs

C1_Witness ==
    /\ Done
    /\ IsTestFor
    /\ ret = Ok(Some("test 22 test 23 test 24 test wat "))
    /\ binds_top = <<Num(22), Num(23), Num(24), Str("wat")>>

\* C2: when the source identifier is not bound to an Array (Nil, Bool, Num,
\* Str or unset), render fails with the Render error of the offending value,
\* no body is rendered, the loop variable is not bound and the Context stays
\* as it was.
C2_NonArrayFails ==
    (ForCall /\ ~SrcIsArray) =>
        /\ stack = <<>>
        /\ context = ctx0
        /\ body_starts = 0
        /\ binds_top = <<>>
        /\ IF ret = NoRet THEN ENABLED ForStart ELSE ret = Err(RenderError(SrcVal))

C2_Witness ==
    /\ Done
    /\ ForCall
    /\ SrcVal = Some(Str("wat"))
    /\ ret = Err(RenderError(Some(Str("wat"))))
    /\ node0.inner # <<>>
    /\ node0.var_name \notin DOMAIN context

\* C3: a loop over an empty Array returns Some(""), not None, whatever the
\* body is, and renders the body not once.
C3_EmptyArrayYieldsEmptyString ==
    (Done /\ ForCall /\ SrcVal = Some(Array(<<>>))) =>
        /\ ret = Ok(Some(""))
        /\ ret.val # None
        /\ body_starts = 0

C3_Witness ==
    /\ Done
    /\ ForCall
    /\ SrcVal = Some(Array(<<>>))
    /\ node0.inner # <<>>
    /\ ret = Ok(Some(""))

\* C7: once a body render has failed, no further element is bound at any
\* depth, the failure is what every enclosing render returns, and the
\* caller gets the error alone: in the outermost loop the failing iteration
\* is the last one started and its earlier outputs are dropped.
C7_BodyFailureAborts ==
    err_seen.some =>
        /\ body_starts = err_seen.val.binds
        /\ ret = Err(err_seen.val.err)
        /\ SrcIsArray => Len(binds_top) = Len(outs_top) + 1

C7_Witness ==
    /\ Done
    /\ ret.tag = "Err"
    /\ SrcIsArray
    /\ Len(binds_top) >= 2
    /\ Len(binds_top) < Len(Arr0)
    /\ ConcatAll(outs_top) # ""

\* the body holds the caller's node that sets "array" to Nil, and "array"
\* is the loop variable
BodyResetsVar ==
    /\ node0.var_name = "array"
    /\ \E i \in DOMAIN node0.inner :
          node0.inner[i].type = "user" /\ node0.inner[i].ctor = "user_set_tag"

\* the value the loop variable is left with: the last element, unless the
\* body bound it last, by a node of the caller or by a nested loop over the
\* same variable
LastBound ==
    IF BodyResetsVar THEN Nil
    ELSE IF NestedSameVar /\ InnerPos \in DOMAIN last_done /\ last_done[InnerPos] # <<>>
    THEN Last(last_done[InnerPos])
    ELSE Last(Arr0)

\* C8: after a successful loop over a non-empty Array the loop variable is
\* bound, in the same Context, to what it held at the end of the last
\* iteration (the last element unless the body rebound it); after a loop
\* over an empty Array the Context is what it was before.
C8_LoopVariablePersists ==
    (Done /\ ForCall /\ ret.tag = "Ok") =>
        /\ context = ctx_iter
        /\ Arr0 = <<>> => context = ctx0
        /\ Arr0 # <<>> => get_val(context, node0.var_name) = Some(LastBound)

C8_Witness ==
    /\ Done
    /\ ForCall
    /\ ret.tag = "Ok"
    /\ node0.var_name = "name"
    /\ ~NestedSameVar
    /\ get_val(ctx0, "name") = Some(Str("old"))
    /\ Len(Arr0) >= 2
    /\ get_val(context, "name") = Some(Last(Arr0))

\* the outermost body is being rendered, and nothing is pending
InOuterBody ==
    /\ ForCall
    /\ Len(stack) = InnerPos - 1
    /\ Top.kind = "template"
    /\ ret = NoRet

\* C9: with a nested loop over the same variable, once the inner loop has
\* finished the variable holds the inner loop's last element for the rest
\* of the outer body, and each outer iteration starts with the variable
\* bound to the outer loop's own element.
C9_NestedSameVariable ==
    /\ (InOuterBody /\ NestedSameVar /\ Top.pos > 1 /\ last_done[InnerPos] # <<>>)
            => get_val(context, node0.var_name) = Some(Last(last_done[InnerPos]))
    /\ (InOuterBody /\ Top.pos = 1)
            => get_val(context, node0.var_name) = Some(stack[1].arr[stack[1].idx])

C9_Witness ==
    /\ InOuterBody
    /\ NestedSameVar
    /\ Top.pos = 1
    /\ stack[1].idx >= 2
    /\ InnerPos \in DOMAIN last_done
    /\ last_done[InnerPos] # <<>>
    /\ Last(last_done[InnerPos]) # stack[1].arr[stack[1].idx]
    /\ Last(last_done[InnerPos]) # stack[1].arr[stack[1].idx - 1]
    /\ get_val(context, node0.var_name) = Some(stack[1].arr[stack[1].idx])

\* C10: the elements a loop binds are those of the Array the source held
\* when the loop started, in number and in order, whatever happens to the
\* source name during the loop.
C10_IterationFixedAtStart ==
    SrcIsArray =>
        /\ Len(binds_top) <= Len(Arr0)
        /\ binds_top = SubSeq(Arr0, 1, Len(binds_top))
        /\ stack # <<>> => stack[1].arr = Arr0
        /\ (Done /\ ret.tag = "Ok") => binds_top = Arr0

C10_Witness ==
    /\ Done
    /\ SrcIsArray
    /\ ret.tag = "Ok"
    /\ node0.var_name # node0.array_id
    /\ Len(Arr0) >= 2
    /\ get_val(context, node0.array_id) = Some(Nil)
    /\ binds_top = Arr0

-----------------------------------------------------------------------------
(* Properties of for_block (SpecParse) *)

\* the body handed to for_block parses
BodyParses == parser_parse(tokens, options).tag = "Ok"

\* exactly: identifier, identifier "in", identifier
ExactShape(args) ==
    /\ Len(args) = Len(Header("x", "bar"))
    /\ IsIdentifier(ArgsNext(args, 1))
    /\ IsIdentifier(ArgsNext(args, 2)) /\ args[2].id = "in"
    /\ IsIdentifier(ArgsNext(args, 3))

\* C5: the header `x foo bar` fails with the Parser error naming foo, for
\* every body, a body that cannot be parsed included.
C5_HeaderCheckedBeforeBody ==
    (block_result # NoRet
        /\ arguments = <<Identifier("x"), Identifier("foo"), Identifier("bar")>>)
    => block_result = Err(ParserError("'in'", Some(Identifier("foo"))))

\* C6: for_block accepts a header if and only if it is exactly three tokens,
\* identifier, identifier "in", identifier; anything else is a Parser error.
C6_ExactlyThreeTokens ==
    (block_result # NoRet /\ BodyParses) =>
        /\ block_result.tag = "Ok" <=> ExactShape(arguments)
        /\ ~ExactShape(arguments) =>
                block_result.tag = "Err" /\ block_result.err.kind = "Parser"

-----------------------------------------------------------------------------
(* Properties of parse (SpecRegistry) *)

Lookup(map, n) == IF n \in DOMAIN map THEN Some(map[n]) ELSE None

Registered == pc = "registered" \/ (pc = "done" /\ lex_ok)

\* C4: once parse has registered the built-ins, if, for, raw and comment
\* resolve to the built-in directives and to no user entry of that name,
\* block or tag, and every user entry under another name is unchanged.
C4_BuiltinsShadowUserEntries ==
    Registered =>
        /\ \A n \in BuiltinNames :
              /\ Lookup(options.blocks, n) = Some(BuiltinBlock(n))
              /\ Lookup(options.tags, n) = None
        /\ \A n \in (DOMAIN options.blocks \cup DOMAIN user_options.blocks) \ BuiltinNames :
              Lookup(options.blocks, n) = Lookup(user_options.blocks, n)
        /\ \A n \in (DOMAIN options.tags \cup DOMAIN user_options.tags) \ BuiltinNames :
              Lookup(options.tags, n) = Lookup(user_options.tags, n)

====
